---- MODULE Spec2Model ----
(***************************************************************************)
(* A model of the Deep Q-Learning trainer of                               *)
(* src/agents/deep_q_learning/mountain_car/agent.py: the replay memory     *)
(* (a deque with maxlen), the online and target networks (DQNModel), the   *)
(* epsilon schedule and the loop of MountainCarAgent.train_agent with its  *)
(* call of training_step; play_game with its caller in test_agent.py; the  *)
(* MoveToGoal environment of src/environments/move_to_goal/move_to_goal.py *)
(* and the EpisodesBatch of                                                *)
(* src/agents/policy_gradient_methods/environments.py.                     *)
(*                                                                         *)
(* Numbers.  Epsilon is held in hundredths (1.0 is 100, 0.01 is 1), so the *)
(* schedule of lines 105-106, 119 and 165 is exact integer arithmetic.     *)
(* Network weights, rewards, q values and the discount are integers, so    *)
(* the Bellman backup of lines 203-207 is exact as well.                   *)
(***************************************************************************)
EXTENDS Integers, Sequences, FiniteSets, TLC

(* ------------------------------ bounds -------------------------------- *)

\* largest replay_memory_size (and min_replay_memory_size) a constructor call passes
MaxCapacity == 2
\* largest batch_size a constructor call passes
MaxBatch == 2
\* largest update_target_every a constructor call passes
MaxUpdateEvery == 3
\* largest episodes argument of train_agent
MaxEpisodes == 2
\* largest cycles argument of train_agent
MaxCycles == 2
\* largest TimeLimit of the environment: an episode is cut after so many steps
MaxEpisodeSteps == 2
\* network parameter sets are indexed 0..MaxWeight
MaxWeight == 1
\* direct update_replay_memory calls explored on one buffer
MaxPushes == 7
\* largest capacity of a buffer that is pushed to directly
MaxDirectCapacity == 5
\* play_game calls explored on one agent
MaxGames == 2
\* train_agent calls explored on one agent that is trained again
MaxRuns == 2
\* largest board_x and board_y of a MoveToGoal game
MaxBoard == 2
\* largest game_end of a MoveToGoal game
MaxGameEnd == 2
\* step calls explored between two prepare_game calls
MaxStepsPlayed == 3
\* the action arguments of step range over -MaxActionIndex .. MaxActionIndex
MaxActionIndex == 5
\* largest max_size of an EpisodesBatch
MaxBatchSize == 3
\* longest episode handed to add_episode
MaxEpisodeLen == 3
\* episodes explored in one EpisodesBatch
MaxStored == 4

(* ------------------------- program constants -------------------------- *)

\* epsilon_min = 0.01, in hundredths
epsilon_min == 1
\* epsilon_decay_value = 0.01, in hundredths
epsilon_decay_value == 1
\* self.env.action_space.n of MountainCar-v0: push left, no push, push right
action_space == 3
\* self.env.goal_position, on the model's position grid
goal_position == 1
\* the reward of every MountainCar step
step_reward == -1

Actions == 0 .. (action_space - 1)

(* ------------------------------ helpers ------------------------------- *)

Max2(a, b) == IF a >= b THEN a ELSE b

\* np.max of a vector of q values, one per action
np_max(qs) == CHOOSE m \in {qs[a] : a \in Actions} : \A a \in Actions : qs[a] <= m

\* an argmax that returns the last index that holds the maximum
np_argmax_last(qs) == CHOOSE a \in Actions : /\ qs[a] = np_max(qs)
                                             /\ \A b \in Actions : b > a => qs[b] < qs[a]

\* np.argmax: the first index that holds the maximum
np_argmax(qs) == CHOOSE a \in Actions : /\ qs[a] = np_max(qs)
                                        /\ \A b \in Actions : b < a => qs[b] < qs[a]

(* --------------------------- DQNModel --------------------------------- *)
(* A DQNModel of layer_size 1 on the two-component state                   *)
(* <<position, velocity>>: d1 and d2 are Dense layers with relu,           *)
(* output_layer is a linear Dense layer with one unit per action.          *)

relu(x) == IF x > 0 THEN x ELSE 0

\* DQNModel.call: inputs through d1, d2 and output_layer
call(weights, inputs) ==
    LET x1 == relu(weights.d1.kernel[1] * inputs[1]
                   + weights.d1.kernel[2] * inputs[2] + weights.d1.bias)
        x2 == relu(weights.d2.kernel * x1 + weights.d2.bias)
    IN  [a \in Actions |-> weights.output_layer.kernel[a] * x2
                           + weights.output_layer.bias[a]]

\* Model.predict on a batch of states: one row of q values per state
predict(weights, states) == [i \in 1 .. Len(states) |-> call(weights, states[i])]

\* The parameter sets the model explores: the values a random initialisation or
\* a gradient step may leave in the three layers.
Params(i) == [d1 |-> [kernel |-> <<1, 0>>, bias |-> i],
              d2 |-> [kernel |-> 1, bias |-> 0],
              output_layer |-> [kernel |-> [a \in Actions |-> 2 * a * i],
                                bias |-> [a \in Actions |-> (action_space - 1 - a) * (1 - i)]]]

WeightSpace == {Params(i) : i \in 0 .. MaxWeight}

\* a parameter set whose q values are 0, 1, 1 in every state: the actions 1
\* and 2 tie for the maximum
TiedParams == [d1 |-> [kernel |-> <<0, 0>>, bias |-> 0],
               d2 |-> [kernel |-> 0, bias |-> 0],
               output_layer |-> [kernel |-> [a \in Actions |-> 0],
                                 bias |-> [a \in Actions |-> IF a = 0 THEN 0 ELSE 1]]]

\* the models a directory handed to load_model may hold
SavedModels == WeightSpace \cup {TiedParams}

\* Model.get_weights: all the layers' parameters
get_weights(net) == net

\* a set_weights that reaches the output layer alone
set_weights_output_only(net, weights) ==
    [d1 |-> net.d1, d2 |-> net.d2, output_layer |-> weights.output_layer]

\* Model.set_weights(weights) on a network: every layer takes the given parameters
set_weights(net, weights) ==
    [d1 |-> weights.d1, d2 |-> weights.d2, output_layer |-> weights.output_layer]

\* DQNModel.train_step: one Adam step on the mean squared error between the
\* predictions for inputs and labels. The parameter sets it may leave: any,
\* the current one included (a zero gradient on fresh optimizer state).
train_step(weights, inputs, labels) == WeightSpace

(* --------------------------- replay memory ---------------------------- *)

\* an append that never drops an item
deque_append_keep_all(q, maxlen, item) == Append(q, item)

\* an append that, on a full deque, drops the item next to the new one
deque_append_drop_newest(q, maxlen, item) ==
    IF maxlen = 0 THEN <<>>
    ELSE IF Len(q) = maxlen THEN Append(SubSeq(q, 1, Len(q) - 1), item)
    ELSE Append(q, item)

\* deque(maxlen).append: the new item goes to the right; a full deque drops
\* its leftmost item, and a deque of maxlen 0 stays empty
deque_append(q, maxlen, item) ==
    IF maxlen = 0 THEN <<>>
    ELSE IF Len(q) = maxlen THEN Append(Tail(q), item)
    ELSE Append(q, item)

\* the sequences of k distinct positions of a population of n items
SamplePositions(n, k) ==
    {p \in [1 .. k -> 1 .. n] : \A i, j \in 1 .. k : i # j => p[i] # p[j]}

(* ------------------- the MountainCar environment ---------------------- *)
(* gym's MountainCar-v0 on a small grid: a state is <<position, velocity>>, *)
(* an action pushes left (0), not at all (1) or right (2), the car cannot   *)
(* leave the track on the left, every step costs step_reward, and the       *)
(* TimeLimit wrapper ends an episode after max_episode_steps steps.         *)

min_position == 0
start_state == <<0, 0>>

\* env.step(action): the new state
env_next_state(s, a) ==
    LET velocity == a - 1
        position == s[1] + velocity
    IN  IF position <= min_position
        THEN <<min_position, IF velocity < 0 THEN 0 ELSE velocity>>
        ELSE IF position >= goal_position THEN <<goal_position, velocity>>
        ELSE <<position, velocity>>

\* env.step(action): done, by the goal or by the TimeLimit
env_done(s_new, elapsed, limit) == s_new[1] >= goal_position \/ elapsed >= limit

(* ------------------------------ state --------------------------------- *)

VARIABLES
    \* MountainCarAgent
    model, target_model, replay_memory, replay_memory_size,
    min_replay_memory_size, batch_size, target_update_counter, update_target_every,
    \* self.env: its state, and the TimeLimit's count of steps and limit
    env_state, elapsed_steps, max_episode_steps,
    \* train_agent: its arguments and locals, and where it stands
    pc, runs, episodes, cycles, epsilon, discount, cycle, episode,
    current_epsilon, done, episode_reward, episodes_wins, episodes_rewards,
    episodes_counter, state, action, new_state, reward,
    \* training_step: the locals of its latest call
    minibatch, current_qs_list, future_qs_list, states_input, target_q_values,
    \* history: the items handed to update_replay_memory by a direct caller, and
    \* the ordinal of the episode of each set_weights call of the current run
    pushed, sync_log,
    \* play_game and its caller: the locals starting_state and win, and the
    \* caller's list of the wins returned
    starting_state, win, results,
    \* a MoveToGoal game: its attributes, the method called last, and the
    \* argument and outcome of the latest step call of the current game
    board_x, board_y, goal_reward, move_reward, game_end, board, steps_played,
    positions, game_call, step_action, step_return, step_raised,
    \* an EpisodesBatch: its attributes (episodes is batch_episodes here), and
    \* whether the latest add_episode call raised ValueError
    batch_episodes, max_size, current_size, add_raised

agentVars == <<model, target_model, replay_memory, replay_memory_size,
               min_replay_memory_size, batch_size, target_update_counter,
               update_target_every>>
configVars == <<replay_memory_size, min_replay_memory_size, batch_size,
                update_target_every>>
envVars == <<env_state, elapsed_steps, max_episode_steps>>
argVars == <<runs, episodes, cycles, epsilon, discount>>
loopVars == <<cycle, episode, current_epsilon, episode_reward, episodes_wins,
              episodes_rewards, episodes_counter>>
stepVars == <<done, state, action, new_state, reward>>
trainVars == <<minibatch, current_qs_list, future_qs_list, states_input,
               target_q_values>>
playVars == <<starting_state, win, results>>
gameVars == <<board_x, board_y, goal_reward, move_reward, game_end, board,
              steps_played, positions, game_call, step_action, step_return,
              step_raised>>
batchVars == <<batch_episodes, max_size, current_size, add_raised>>
sideVars == <<playVars, gameVars, batchVars>>
vars == <<agentVars, envVars, pc, argVars, loopVars, stepVars, trainVars,
          pushed, sync_log, sideVars>>

(* ------------------------------ inputs -------------------------------- *)

\* epsilon arguments, in hundredths: 0.0, 0.01, 0.03 and 1.0
EpsilonValues == {0, 1, 3, 100}
\* discount arguments
DiscountValues == {0, 2}
\* np.random.random(), in hundredths: the ends of [0, 1)
RandomDraws == {0, 99}

\* The constructor arguments explored, each with the TimeLimit of the
\* environment it makes: every memory configuration with a target update at
\* each episode or at every other one, and every update period on the
\* smallest memory with episodes of one step.
ConstructorArgs ==
    {[replay_memory_size |-> c, min_replay_memory_size |-> m, batch_size |-> b,
      update_target_every |-> n, max_episode_steps |-> MaxEpisodeSteps] :
        c \in 1 .. MaxCapacity, m \in 1 .. MaxCapacity, b \in 1 .. MaxBatch,
        n \in 1 .. 2}
    \cup
    {[replay_memory_size |-> 1, min_replay_memory_size |-> 1, batch_size |-> 1,
      update_target_every |-> n, max_episode_steps |-> 1] :
        n \in 1 .. MaxUpdateEvery}

\* The train_agent arguments explored: every schedule where episodes take one
\* step, one short schedule with every discount elsewhere.
TrainArgs ==
    IF max_episode_steps = 1
    THEN {[episodes |-> e, cycles |-> c, epsilon |-> x, discount |-> 2] :
            e \in 1 .. MaxEpisodes, c \in 1 .. MaxCycles, x \in EpsilonValues}
    ELSE {[episodes |-> 2, cycles |-> 1, epsilon |-> 3, discount |-> d] :
            d \in DiscountValues}

(* --------------------- MountainCarAgent.__init__ ---------------------- *)

\* the state a constructor call with the given arguments leaves: model and
\* target_model are built with initial weights of their own, then target_model
\* takes the weights of model
Constructed(args, w_model, w_target) ==
    /\ model = w_model
    /\ target_model = set_weights(w_target, get_weights(w_model))
    /\ replay_memory = <<>>
    /\ replay_memory_size = args.replay_memory_size
    /\ min_replay_memory_size = args.min_replay_memory_size
    /\ batch_size = args.batch_size
    /\ target_update_counter = 0
    /\ update_target_every = args.update_target_every
    /\ env_state = start_state
    /\ elapsed_steps = 0
    /\ max_episode_steps = args.max_episode_steps
    /\ pc = "idle"
    /\ runs = 0
    /\ episodes = 0 /\ cycles = 0 /\ epsilon = 0 /\ discount = 0
    /\ cycle = 0 /\ episode = 0 /\ current_epsilon = 0
    /\ done = FALSE /\ episode_reward = 0
    /\ episodes_wins = <<>> /\ episodes_rewards = <<>> /\ episodes_counter = 0
    /\ state = start_state /\ action = 0 /\ new_state = start_state /\ reward = 0
    /\ minibatch = <<>> /\ current_qs_list = <<>> /\ future_qs_list = <<>>
    /\ states_input = <<>> /\ target_q_values = <<>>
    /\ pushed = <<>> /\ sync_log = <<>>

\* play_game has not been called
NotPlayed == starting_state = start_state /\ win = FALSE /\ results = <<>>

\* no MoveToGoal game has been made
NoGame ==
    /\ board_x = 0 /\ board_y = 0 /\ goal_reward = 0 /\ move_reward = 0
    /\ game_end = 0 /\ board = <<>> /\ steps_played = 0
    /\ positions = [player |-> <<>>, goal |-> <<>>]
    /\ game_call = "" /\ step_action = 0 /\ step_raised = ""
    /\ step_return = [state |-> <<>>, reward |-> 0, done |-> FALSE]

\* no EpisodesBatch has been made
NoBatch ==
    /\ batch_episodes = <<>> /\ max_size = 0 /\ current_size = 0
    /\ add_raised = FALSE

Init ==
    /\ \E args \in ConstructorArgs : \E w_model \in WeightSpace, w_target \in WeightSpace :
          Constructed(args, w_model, w_target)
    /\ NotPlayed /\ NoGame /\ NoBatch

(* ----------------------- MountainCarAgent methods --------------------- *)

\* get_q_values: the online model on a batch of one state
get_q_values(weights, s) == predict(weights, <<s>>)[1]

\* produce_action: the greedy action
produce_action(weights, s) == np_argmax(get_q_values(weights, s))

\* update_replay_memory(transition)
update_replay_memory(transition) ==
    replay_memory' = deque_append(replay_memory, replay_memory_size, transition)

\* a fill check that lets training start one sample early
BelowMinFill_OneEarly == Len(replay_memory) + 1 < min_replay_memory_size

\* training_step, line 179: the memory holds too little to train on
BelowMinFill == Len(replay_memory) < min_replay_memory_size

\* training_step, lines 203-207: the backup value of one transition
\* (current_state, action, reward, new_current_state, done)
NewQ(transition, future_qs, disc) ==
    IF ~ transition[5]
    THEN transition[3] + disc * np_max(future_qs)
    ELSE transition[3]

\* future q values asked of the online model
FutureQs_Online(new_current_states) == predict(model, new_current_states)

\* training_step, line 192: the target network gives the future q values
FutureQs(new_current_states) == predict(target_model, new_current_states)

\* an overwrite that reaches every action's entry
OverwriteTaken_All(current_qs, taken, new_q) == [a \in Actions |-> new_q]

\* training_step, lines 211-212: the row of the online model's q values with the
\* entry of the taken action replaced
OverwriteTaken(current_qs, taken, new_q) == [current_qs EXCEPT ![taken] = new_q]

\* a fit on an online model that target_model shares
FitNetworks_Shared(new_weights) ==
    /\ model' = new_weights
    /\ target_model' = new_weights

\* training_step, line 219: the fit changes the online model alone
FitNetworks(new_weights) ==
    /\ model' = new_weights
    /\ target_model' = target_model

\* a target update that waits for the counter to pass the period
SyncDue_Late(counter, every) == counter > every

\* a target update every other time the counter reaches the period
SyncDue_EveryOther(counter, every) == counter % (2 * every) = 0 /\ counter > 0

\* a target update that is due at a counter of 0 as well
SyncDue_AtZero(counter, every) == counter % every = 0

\* a target update that waits for the memory to reach its minimum
SyncDue_NeedsFill(counter, every) ==
    /\ ~ BelowMinFill
    /\ counter % every = 0
    /\ counter > 0

\* train_agent, line 159: the target network is due for the online weights
SyncDue(counter, every) == counter % every = 0 /\ counter > 0

\* a floor that lets every value through
ClampEpsilon_None(eps) == eps

\* train_agent, line 119
ClampEpsilon(eps) == Max2(epsilon_min, eps)

\* a decay that adds
DecayEpsilon_Grow(eps) == eps + epsilon_decay_value

\* a decay of two steps at once
DecayEpsilon_Double(eps) == eps - 2 * epsilon_decay_value

\* train_agent, line 165
DecayEpsilon(eps) == eps - epsilon_decay_value

\* a cycle that goes on from the epsilon the one before it ended with
CycleEpsilon_Carry(eps_argument, eps_current) == eps_current

\* train_agent, line 113: the epsilon a cycle starts from
CycleEpsilon(eps_argument, eps_current) == eps_argument

\* a win entry for every step
RecordWin_EveryStep(wins, is_done, s_new) == Append(wins, s_new[1] >= goal_position)

\* train_agent, lines 151-155: a finished episode is entered as won or lost
RecordWin(wins, is_done, s_new) ==
    IF is_done
    THEN Append(wins, s_new[1] >= goal_position)
    ELSE wins

(* ------------------------------ actions ------------------------------- *)

\* The caller of train_agent, once on a fresh agent: lines 102-119, up to the
\* first episode's loop
TrainAgentCall ==
    /\ pc = "idle"
    /\ runs = 0
    /\ \E args \in TrainArgs :
        /\ episodes' = args.episodes
        /\ cycles' = args.cycles
        /\ epsilon' = args.epsilon
        /\ discount' = args.discount
        /\ current_epsilon' = ClampEpsilon(CycleEpsilon(args.epsilon, current_epsilon))
    /\ runs' = runs + 1
    /\ cycle' = 0
    /\ episode' = 0
    /\ episodes_counter' = 0
    /\ episodes_wins' = <<>>
    /\ episodes_rewards' = <<>>
    /\ env_state' = start_state
    /\ elapsed_steps' = 0
    /\ done' = FALSE
    /\ episode_reward' = 0
    /\ sync_log' = <<>>
    /\ pc' = "step"
    /\ UNCHANGED <<agentVars, max_episode_steps, state, action, new_state, reward,
                   trainVars, pushed, sideVars>>

\* One pass of the while loop, lines 140-148: the action is chosen, the
\* environment steps, the transition goes to the replay memory
LoopStep ==
    /\ pc = "step"
    /\ \E u \in RandomDraws, random_action \in Actions :
        LET a == IF u > current_epsilon
                 THEN produce_action(model, env_state)
                 ELSE random_action
            s_new == env_next_state(env_state, a)
            d == env_done(s_new, elapsed_steps + 1, max_episode_steps)
        IN  /\ state' = env_state
            /\ action' = a
            /\ new_state' = s_new
            /\ reward' = step_reward
            /\ done' = d
            /\ env_state' = s_new
            /\ elapsed_steps' = elapsed_steps + 1
            /\ update_replay_memory(<<env_state, a, step_reward, s_new, d>>)
    /\ pc' = "train"
    /\ UNCHANGED <<model, target_model, configVars, target_update_counter,
                   max_episode_steps, argVars, loopVars, trainVars, pushed, sync_log,
                   sideVars>>

\* training_step(discount), line 149 and lines 176-219
TrainingStep ==
    /\ pc = "train"
    /\ \/ \* lines 179-180: too few samples, return
          /\ BelowMinFill
          /\ pc' = "book"
          /\ UNCHANGED <<model, target_model, trainVars>>
       \/ \* line 183: random.sample raises ValueError on a sample larger than
          \* the population
          /\ ~ BelowMinFill
          /\ batch_size > Len(replay_memory)
          /\ pc' = "raised"
          /\ UNCHANGED <<model, target_model, trainVars>>
       \/ \* lines 183-219
          /\ ~ BelowMinFill
          /\ batch_size <= Len(replay_memory)
          /\ \E p \in SamplePositions(Len(replay_memory), batch_size) :
              LET batch == [i \in 1 .. batch_size |-> replay_memory[p[i]]]
                  current_states == [i \in 1 .. batch_size |-> batch[i][1]]
                  current_qs == predict(model, current_states)
                  new_current_states == [i \in 1 .. batch_size |-> batch[i][4]]
                  future_qs == FutureQs(new_current_states)
                  targets == [i \in 1 .. batch_size |->
                                OverwriteTaken(current_qs[i], batch[i][2],
                                               NewQ(batch[i], future_qs[i], discount))]
              IN  /\ minibatch' = batch
                  /\ future_qs_list' = future_qs
                  \* current_qs is a row of current_qs_list, written in place
                  /\ current_qs_list' = targets
                  /\ states_input' = current_states
                  /\ target_q_values' = targets
                  /\ \E w \in train_step(model, current_states, targets) :
                        FitNetworks(w)
          /\ pc' = "book"
    /\ UNCHANGED <<replay_memory, configVars, target_update_counter, envVars,
                   argVars, loopVars, stepVars, pushed, sync_log, sideVars>>

\* The rest of the pass, lines 151-163: the win, the counter, the target update
Bookkeep ==
    /\ pc = "book"
    /\ LET counter == IF done THEN target_update_counter + 1
                      ELSE target_update_counter
       IN  /\ episodes_wins' = RecordWin(episodes_wins, done, new_state)
           /\ IF SyncDue(counter, update_target_every)
              THEN /\ target_model' = set_weights(target_model, get_weights(model))
                   /\ target_update_counter' = 0
                   /\ sync_log' = Append(sync_log, episodes_counter + 1)
              ELSE /\ target_model' = target_model
                   /\ target_update_counter' = counter
                   /\ sync_log' = sync_log
    /\ episode_reward' = episode_reward + reward
    /\ pc' = IF done THEN "episode_end" ELSE "step"
    \* the frame of training_step is gone
    /\ minibatch' = <<>> /\ current_qs_list' = <<>> /\ future_qs_list' = <<>>
    /\ states_input' = <<>> /\ target_q_values' = <<>>
    /\ UNCHANGED <<model, replay_memory, configVars, envVars, argVars, cycle,
                   episode, current_epsilon, episodes_rewards, episodes_counter,
                   stepVars, pushed, sideVars>>

\* The end of an episode, lines 165-168, and what follows it: the next
\* episode's lines 115-119, after line 113 when a cycle starts, or the return
\* of train_agent
NextEpisode ==
    /\ pc = "episode_end"
    /\ episodes_rewards' = Append(episodes_rewards, episode_reward)
    /\ episodes_counter' = episodes_counter + 1
    /\ IF episode + 1 < episodes
       THEN /\ episode' = episode + 1
            /\ cycle' = cycle
            /\ current_epsilon' = ClampEpsilon(DecayEpsilon(current_epsilon))
            /\ pc' = "step"
            /\ env_state' = start_state /\ elapsed_steps' = 0
            /\ done' = FALSE /\ episode_reward' = 0
       ELSE IF cycle + 1 < cycles
       THEN /\ episode' = 0
            /\ cycle' = cycle + 1
            /\ current_epsilon' =
                  ClampEpsilon(CycleEpsilon(epsilon, DecayEpsilon(current_epsilon)))
            /\ pc' = "step"
            /\ env_state' = start_state /\ elapsed_steps' = 0
            /\ done' = FALSE /\ episode_reward' = 0
       ELSE /\ current_epsilon' = DecayEpsilon(current_epsilon)
            /\ pc' = "idle"
            /\ UNCHANGED <<episode, cycle, env_state, elapsed_steps, done,
                           episode_reward>>
    /\ UNCHANGED <<agentVars, max_episode_steps, argVars, episodes_wins, state, action, new_state,
                   reward, trainVars, pushed, sync_log, sideVars>>

Next == TrainAgentCall \/ LoopStep \/ TrainingStep \/ Bookkeep \/ NextEpisode

Spec == Init /\ [][Next]_vars

(* ---------------- the replay memory, pushed to directly ---------------- *)

\* the constructor arguments of an agent whose memory is pushed to directly
DirectArgs ==
    {[replay_memory_size |-> c, min_replay_memory_size |-> 1, batch_size |-> 1,
      update_target_every |-> 1, max_episode_steps |-> 1] :
        c \in 0 .. MaxDirectCapacity}

InitMemory ==
    /\ \E args \in DirectArgs : Constructed(args, Params(0), Params(0))
    /\ NotPlayed /\ NoGame /\ NoBatch

\* The n-th transition a direct caller pushes carries -n as its reward, which
\* tells the pushes apart; its done flag is free.
DirectPush ==
    /\ pc = "idle"
    /\ Len(pushed) < MaxPushes
    /\ \E d \in BOOLEAN :
        LET transition == <<start_state, 0, - (Len(pushed) + 1), start_state, d>>
        IN  /\ update_replay_memory(transition)
            /\ pushed' = Append(pushed, transition)
    /\ UNCHANGED <<model, target_model, configVars, target_update_counter, envVars,
                   pc, argVars, loopVars, stepVars, trainVars, sync_log, sideVars>>

SpecMemory == InitMemory /\ [][DirectPush]_vars

(* ------------------ train_agent, called again ------------------------- *)

\* the constructor arguments of an agent that is trained more than once: every
\* update period on a memory too small to train from, the longest period on
\* one that is trained from, and the longest period with episodes of one
\* step, which are run in every schedule of episodes and cycles
RunsArgs ==
    {[replay_memory_size |-> 1, min_replay_memory_size |-> 2, batch_size |-> 1,
      update_target_every |-> n, max_episode_steps |-> MaxEpisodeSteps] :
        n \in 1 .. MaxUpdateEvery}
    \cup
    {[replay_memory_size |-> 1, min_replay_memory_size |-> 1, batch_size |-> 1,
      update_target_every |-> MaxUpdateEvery,
      max_episode_steps |-> MaxEpisodeSteps],
     [replay_memory_size |-> 1, min_replay_memory_size |-> 2, batch_size |-> 1,
      update_target_every |-> MaxUpdateEvery, max_episode_steps |-> 1]}

InitRuns ==
    /\ \E args \in RunsArgs : \E w_model \in WeightSpace :
          Constructed(args, w_model, w_model)
    /\ NotPlayed /\ NoGame /\ NoBatch

\* A further train_agent call on the same agent, lines 102-119: the locals
\* start afresh, the attributes of the agent are the ones the call before
\* left
TrainAgentRecall ==
    /\ pc = "idle"
    /\ runs >= 1
    /\ runs < MaxRuns
    /\ \E args \in TrainArgs :
        /\ episodes' = args.episodes
        /\ cycles' = args.cycles
        /\ epsilon' = args.epsilon
        /\ discount' = args.discount
        /\ current_epsilon' = ClampEpsilon(CycleEpsilon(args.epsilon, current_epsilon))
    /\ runs' = runs + 1
    /\ cycle' = 0
    /\ episode' = 0
    /\ episodes_counter' = 0
    /\ episodes_wins' = <<>>
    /\ episodes_rewards' = <<>>
    /\ env_state' = start_state
    /\ elapsed_steps' = 0
    /\ done' = FALSE
    /\ episode_reward' = 0
    /\ sync_log' = <<>>
    /\ pc' = "step"
    /\ UNCHANGED <<agentVars, max_episode_steps, state, action, new_state, reward,
                   trainVars, pushed, sideVars>>

NextRuns ==
    \/ TrainAgentCall \/ TrainAgentRecall \/ LoopStep \/ TrainingStep
    \/ Bookkeep \/ NextEpisode

SpecRuns == InitRuns /\ [][NextRuns]_vars

(* ------------------- play_game and its caller ------------------------- *)

\* the constructor arguments of an agent that is trained, loaded and played
PlayArgs ==
    {[replay_memory_size |-> c, min_replay_memory_size |-> 1, batch_size |-> 1,
      update_target_every |-> MaxUpdateEvery,
      max_episode_steps |-> MaxEpisodeSteps] : c \in 1 .. MaxCapacity}

InitPlay ==
    /\ \E args \in PlayArgs : \E w_model \in WeightSpace :
          Constructed(args, w_model, w_model)
    /\ NotPlayed /\ NoGame /\ NoBatch

\* load_model(model_dir): the online model becomes the saved one
LoadModel ==
    /\ pc = "idle"
    /\ \E saved \in SavedModels : model' = saved
    /\ UNCHANGED <<target_model, replay_memory, configVars, target_update_counter,
                   envVars, pc, argVars, loopVars, stepVars, trainVars, pushed,
                   sync_log, sideVars>>

\* play_game, lines 242-244: a caller starts a game
PlayGameCall ==
    /\ pc = "idle"
    /\ Len(results) < MaxGames
    /\ env_state' = start_state
    /\ elapsed_steps' = 0
    /\ starting_state' = start_state
    /\ done' = FALSE
    /\ pc' = "play"
    /\ UNCHANGED <<agentVars, max_episode_steps, argVars, loopVars, state, action,
                   new_state, reward, trainVars, pushed, sync_log, win, results,
                   gameVars, batchVars>>

\* play_game, lines 245-252: one pass of its while loop
PlayStep ==
    /\ pc = "play"
    /\ ~ done
    /\ LET a == produce_action(model, env_state)
           s_new == env_next_state(env_state, a)
       IN  /\ state' = env_state
           /\ action' = a
           /\ new_state' = s_new
           /\ reward' = step_reward
           /\ done' = env_done(s_new, elapsed_steps + 1, max_episode_steps)
           /\ env_state' = s_new
           /\ elapsed_steps' = elapsed_steps + 1
    /\ UNCHANGED <<agentVars, max_episode_steps, pc, argVars, loopVars, trainVars,
                   pushed, sync_log, sideVars>>

\* play_game, lines 254-258, and the caller's line 46 of test_agent.py: the
\* game is over, its outcome goes to the caller's results
PlayGameReturn ==
    /\ pc = "play"
    /\ done
    /\ win' = (env_state[1] >= goal_position)
    /\ results' = Append(results, env_state[1] >= goal_position)
    /\ env_state' = start_state
    /\ elapsed_steps' = 0
    /\ pc' = "idle"
    /\ UNCHANGED <<agentVars, max_episode_steps, argVars, loopVars, stepVars,
                   trainVars, pushed, sync_log, starting_state, gameVars, batchVars>>

NextPlay ==
    \/ TrainAgentCall \/ LoopStep \/ TrainingStep \/ Bookkeep \/ NextEpisode
    \/ LoadModel \/ PlayGameCall \/ PlayStep \/ PlayGameReturn

SpecPlay == InitPlay /\ [][NextPlay]_vars

(* ------------------------------ MoveToGoal ---------------------------- *)

\* an agent that stands by while another object is exercised
AgentAside ==
    Constructed([replay_memory_size |-> 1, min_replay_memory_size |-> 1,
                 batch_size |-> 1, update_target_every |-> 1,
                 max_episode_steps |-> 1], Params(0), Params(0))

\* self.actions
game_actions == <<"up", "right", "down", "left">>

\* a Python list accepts the indices -len .. len - 1
list_index_ok(list, i) == - Len(list) <= i /\ i < Len(list)

\* list[i]: a negative index counts from the end of the list
list_getitem(list, i) == IF i >= 0 THEN list[i + 1] ELSE list[Len(list) + i + 1]

\* the cells of a board
Cells(bx, by) == (0 .. (bx - 1)) \X (0 .. (by - 1))

\* generate_board: the goal's colour is written after the player's
generate_board(bx, by, pos) ==
    [c \in Cells(bx, by) |-> IF c = pos.goal THEN "goal"
                             ELSE IF c = pos.player THEN "player"
                             ELSE "empty"]

\* moves that no wall stops
player_after_no_wall(name, player, bx, by) ==
    IF name = "up" THEN <<player[1], player[2] + 1>>
    ELSE IF name = "right" THEN <<player[1] + 1, player[2]>>
    ELSE IF name = "down" THEN <<player[1], player[2] - 1>>
    ELSE <<player[1] - 1, player[2]>>

\* execute_player_action, lines 57-75: the player's cell after a move
player_after(name, player, bx, by) ==
    LET player_x == player[1]
        player_y == player[2]
    IN  IF name = "up"
        THEN <<player_x, IF player_y < by - 1 THEN player_y + 1 ELSE player_y>>
        ELSE IF name = "right"
        THEN <<IF player_x < bx - 1 THEN player_x + 1 ELSE player_x, player_y>>
        ELSE IF name = "down"
        THEN <<player_x, IF player_y > 0 THEN player_y - 1 ELSE player_y>>
        ELSE <<IF player_x > 0 THEN player_x - 1 ELSE player_x, player_y>>

\* a step that is done on the goal alone
step_done_goal_only(at_goal, played, limit) == at_goal

\* step, lines 86-95: done on the goal, or with game_end steps played
step_done(at_goal, played, limit) == at_goal \/ played >= limit

\* the constructor arguments of the games explored
GameArgs ==
    {[board_x |-> x, board_y |-> y, goal_reward |-> 1, move_reward |-> -1,
      game_end |-> e] :
        x \in 1 .. MaxBoard, y \in 1 .. MaxBoard, e \in 1 .. MaxGameEnd}

\* the action arguments handed to step
ActionArgs == (- MaxActionIndex) .. MaxActionIndex

\* MoveToGoal.__init__
InitGame ==
    /\ AgentAside /\ NotPlayed /\ NoBatch
    /\ \E args \in GameArgs :
          /\ board_x = args.board_x
          /\ board_y = args.board_y
          /\ goal_reward = args.goal_reward
          /\ move_reward = args.move_reward
          /\ game_end = args.game_end
    /\ board = <<>>
    /\ steps_played = 0
    /\ positions = [player |-> <<>>, goal |-> <<>>]
    /\ game_call = "__init__"
    /\ step_action = 0
    /\ step_raised = ""
    /\ step_return = [state |-> <<>>, reward |-> 0, done |-> FALSE]

\* prepare_game(player_pos, goal_pos): each position is the one given or a
\* random cell of the board; a random goal is drawn again while it is on the
\* player's cell
PrepareGame ==
    /\ \E player_pos \in Cells(board_x, board_y), goal_pos \in Cells(board_x, board_y) :
          /\ positions' = [player |-> player_pos, goal |-> goal_pos]
          /\ board' = generate_board(board_x, board_y,
                                     [player |-> player_pos, goal |-> goal_pos])
    /\ steps_played' = 0
    /\ game_call' = "prepare_game"
    \* no step of the new game yet
    /\ step_action' = 0
    /\ step_raised' = ""
    /\ step_return' = [state |-> <<>>, reward |-> 0, done |-> FALSE]
    /\ UNCHANGED <<agentVars, envVars, pc, argVars, loopVars, stepVars, trainVars,
                   pushed, sync_log, playVars, board_x, board_y, goal_reward,
                   move_reward, game_end, batchVars>>

\* step(action), with execute_player_action
GameStep ==
    /\ steps_played < MaxStepsPlayed
    /\ game_call' = "step"
    /\ \E a \in ActionArgs :
          /\ step_action' = a
          /\ IF ~ list_index_ok(game_actions, a)
             THEN \* line 56
                  /\ step_raised' = "IndexError"
                  /\ UNCHANGED <<positions, board, steps_played, step_return>>
             ELSE IF positions.player = <<>>
             THEN \* line 57, before any prepare_game
                  /\ step_raised' = "TypeError"
                  /\ UNCHANGED <<positions, board, steps_played, step_return>>
             ELSE LET moved == player_after(list_getitem(game_actions, a),
                                            positions.player, board_x, board_y)
                      pos == [player |-> moved, goal |-> positions.goal]
                      at_goal == moved = positions.goal
                  IN  /\ positions' = pos
                      /\ board' = generate_board(board_x, board_y, pos)
                      /\ steps_played' = steps_played + 1
                      /\ step_return' =
                            [state |-> <<moved, positions.goal>>,
                             reward |-> IF at_goal THEN goal_reward ELSE move_reward,
                             done |-> step_done(at_goal, steps_played + 1, game_end)]
                      /\ step_raised' = ""
    /\ UNCHANGED <<agentVars, envVars, pc, argVars, loopVars, stepVars, trainVars,
                   pushed, sync_log, playVars, board_x, board_y, goal_reward,
                   move_reward, game_end, batchVars>>

NextGame == PrepareGame \/ GameStep

SpecGame == InitGame /\ [][NextGame]_vars

(* ------------------------- Episode, EpisodesBatch --------------------- *)

\* np.sum of a list of rewards
np_sum(rewards) ==
    LET partial[i \in 0 .. Len(rewards)] ==
            IF i = 0 THEN 0 ELSE partial[i - 1] + rewards[i]
    IN  partial[Len(rewards)]

\* Episode.__init__(states, actions, rewards)
Episode(states, actions, rewards) ==
    [states |-> states, actions |-> actions, rewards |-> rewards,
     total_reward |-> np_sum(rewards)]

\* Episode.__len__
episode_len(e) == Len(e.states)

\* the episodes handed to add_episode: one of each length, down to the empty one
EpisodeInputs ==
    {Episode([i \in 1 .. n |-> <<i, 0>>], [i \in 1 .. n |-> 0],
             [i \in 1 .. n |-> step_reward]) : n \in 0 .. MaxEpisodeLen}

\* a batch that is full only past its max_size
is_full_past(size, limit) == size > limit

\* EpisodesBatch.is_full
is_full(size, limit) == size >= limit

\* EpisodesBatch.__init__(max_size)
InitBatch ==
    /\ AgentAside /\ NotPlayed /\ NoGame
    /\ batch_episodes = <<>>
    /\ max_size \in 0 .. MaxBatchSize
    /\ current_size = 0
    /\ add_raised = FALSE

\* EpisodesBatch.add_episode(episode)
AddEpisode ==
    /\ Len(batch_episodes) < MaxStored
    /\ \E e \in EpisodeInputs :
          IF ~ is_full(current_size, max_size)
          THEN /\ batch_episodes' = Append(batch_episodes, e)
               /\ current_size' = current_size + episode_len(e)
               /\ add_raised' = FALSE
          ELSE /\ add_raised' = TRUE
               /\ UNCHANGED <<batch_episodes, current_size>>
    /\ UNCHANGED <<agentVars, envVars, pc, argVars, loopVars, stepVars, trainVars,
                   pushed, sync_log, playVars, gameVars, max_size>>

SpecBatch == InitBatch /\ [][AddEpisode]_vars

(* ------------------------------ claims -------------------------------- *)

\* C1: after any sequence of update_replay_memory calls on a memory created
\* with capacity replay_memory_size, the number of stored transitions never
\* exceeds replay_memory_size.
C1_SizeWithinCapacity == Len(replay_memory) <= replay_memory_size

\* C1 witness: a memory at its capacity that has taken more pushes than it holds
C1_Witness ==
    /\ replay_memory_size >= 2
    /\ Len(replay_memory) = replay_memory_size
    /\ Len(pushed) > replay_memory_size

\* the last k items of a sequence
LastItems(seq, k) == SubSeq(seq, Len(seq) - k + 1, Len(seq))

\* C2: after n pushes into a memory of capacity C, the memory holds exactly the
\* last min(n, C) pushed transitions, in the order of their pushes.
C2_HoldsLastPushes ==
    LET n == Len(pushed)
        k == IF n <= replay_memory_size THEN n ELSE replay_memory_size
    IN  replay_memory = LastItems(pushed, k)

\* C2 witness: capacity 5 and 7 pushes leave the pushes 3, 4, 5, 6, 7 in that order
C2_Witness ==
    /\ replay_memory_size = 5
    /\ Len(pushed) = 7
    /\ Len(replay_memory) = 5
    /\ \A i \in 1 .. 5 : replay_memory[i][3] = - (i + 2)

\* C3: for every configuration and every sequence of training steps,
\* training_step never asks for a minibatch larger than the memory: whenever
\* sampling is reached, batch_size <= len(replay_memory).
C3_SampleWithinMemory ==
    (pc = "train" /\ Len(replay_memory) >= min_replay_memory_size)
        => batch_size <= Len(replay_memory)

\* C4: while the memory holds fewer than min_replay_memory_size transitions,
\* every training_step is a no-op: no minibatch is sampled, nothing is handed
\* to train_step, and the online model's parameters stay as they are.
C4_NoTrainingBelowMinFill ==
    [][Len(replay_memory) < min_replay_memory_size
        => /\ model' = model
           /\ pc = "train" => /\ pc' = "book"
                              /\ minibatch' = <<>>
                              /\ states_input' = <<>>
                              /\ target_q_values' = <<>>]_vars

\* C4 witness: a training_step has returned with the memory below its minimum
C4_Witness ==
    /\ pc = "book"
    /\ replay_memory # <<>>
    /\ Len(replay_memory) < min_replay_memory_size

\* the Bellman backup of a transition against the given target network
Backup(transition, target_weights, disc) ==
    IF transition[5]
    THEN transition[3]
    ELSE transition[3] + disc * np_max(call(target_weights, transition[4]))

\* C5: for every sampled transition (s, a, r, s', terminal) the backup value
\* training_step computes is r when terminal, and r + discount * the maximum
\* over the actions of the target network's value at s' otherwise.
C5_BackupValue ==
    [][(pc = "train" /\ pc' = "book")
        => \A i \in 1 .. Len(minibatch') :
              target_q_values'[i][minibatch'[i][2]]
                  = Backup(minibatch'[i], target_model, discount)]_vars

\* C5 witness: a minibatch with a terminal and a non-terminal transition, the
\* latter backed up with a bootstrap that differs from its reward
C5_Witness ==
    /\ pc = "book"
    /\ \E i, j \in 1 .. Len(minibatch) :
          /\ minibatch[i][5]
          /\ target_q_values[i][minibatch[i][2]] = minibatch[i][3]
          /\ ~ minibatch[j][5]
          /\ target_q_values[j][minibatch[j][2]] # minibatch[j][3]

\* C6: for every sampled transition the target vector handed to train_step is
\* the online model's prediction for s at every action but the taken one, and
\* the backup value at the taken action.
C6_TargetVector ==
    [][(pc = "train" /\ pc' = "book")
        => /\ Len(target_q_values') = Len(minibatch')
           /\ Len(states_input') = Len(minibatch')
           /\ \A i \in 1 .. Len(minibatch') :
                /\ states_input'[i] = minibatch'[i][1]
                /\ \A b \in Actions :
                     target_q_values'[i][b]
                         = IF b = minibatch'[i][2]
                           THEN Backup(minibatch'[i], target_model, discount)
                           ELSE call(model, minibatch'[i][1])[b]]_vars

\* C6 witness: a target vector whose entries for the actions not taken are the
\* online model's and differ from the backup value at the taken action
C6_Witness ==
    /\ pc = "book"
    /\ \E i \in 1 .. Len(minibatch) : \E b \in Actions :
          /\ b # minibatch[i][2]
          /\ target_q_values[i][b] # target_q_values[i][minibatch[i][2]]

\* the states of the environment
EnvStates == {<<p, v>> : p \in min_position .. goal_position, v \in -1 .. 1}

\* C7: right after every synchronization, at construction and in train_agent,
\* the target network's parameters are the online model's in full, and the two
\* networks evaluate alike on every input.
C7_SyncCopiesAll ==
    /\ target_model = model
    /\ [][Len(sync_log') > Len(sync_log)
            => /\ target_model' = model'
               /\ \A x \in EnvStates : call(target_model', x) = call(model', x)]_vars

\* C7 witness: a synchronization of train_agent has just run, after a fit
C7_Witness ==
    /\ sync_log # <<>>
    /\ pc = "episode_end"
    /\ target_update_counter = 0
    /\ Len(replay_memory) >= min_replay_memory_size
    /\ target_model = model

\* C8: between two synchronizations the target network's parameters are
\* unchanged: no push, action selection or training_step modifies them.
C8_TargetFrozenBetweenSyncs ==
    [][~ (Len(sync_log') > Len(sync_log)) => target_model' = target_model]_vars

\* C8 witness: a fit has left the online model away from the target network
C8_Witness ==
    /\ pc = "book"
    /\ minibatch # <<>>
    /\ target_model # model

\* the episodes of the current run whose last step is accounted for
EpisodesDone == IF pc = "episode_end" THEN episodes_counter + 1 ELSE episodes_counter

\* C9: with update_target_every = N >= 1 and a counter that starts at 0, a run
\* synchronizes the target network at the end of the episodes N, 2N, 3N, ... and
\* of no other: floor(E / N) times over its E episodes.
C9_SyncEveryNEpisodes ==
    /\ sync_log = [i \in 1 .. (EpisodesDone \div update_target_every)
                      |-> i * update_target_every]
    /\ (pc = "idle" /\ runs = 1) => EpisodesDone = cycles * episodes

\* C9 witness: N = 3 and a run of 4 episodes, synchronized after episode 3 alone
C9_Witness ==
    /\ update_target_every = 3
    /\ pc = "idle"
    /\ runs = 1
    /\ episodes_counter = 4
    /\ sync_log = <<3>>

\* C10 as stated: across all the completed episodes of one train_agent call,
\* for any cycles >= 1, the epsilon of successive episodes never increases.
C10_EpsilonNeverIncreases ==
    [][(pc = "episode_end" /\ pc' = "step")
        => current_epsilon' <= current_epsilon]_vars

\* C10, amended: within one cycle the epsilon of successive episodes never
\* increases (a new cycle starts again from the epsilon argument).
C10_EpsilonNeverIncreasesInCycle ==
    [][(pc = "episode_end" /\ pc' = "step" /\ cycle' = cycle)
        => current_epsilon' <= current_epsilon]_vars

\* C10 witness: a later episode of a cycle runs on an epsilon below the one
\* the cycle started from
C10_Witness ==
    /\ pc = "step"
    /\ episode >= 1
    /\ current_epsilon < epsilon
    /\ current_epsilon > epsilon_min

\* the program points of train_agent's loops
InEpisode == pc \in {"step", "train", "book", "episode_end"}

\* C11 as stated: epsilon never drops below epsilon_min at any point: the
\* value used for action selection in every step and the value held after the
\* end-of-episode decay are both at least epsilon_min.
C11_EpsilonNeverBelowMin == runs >= 1 => current_epsilon >= epsilon_min

\* C11, amended: the epsilon used for action selection in every step is at
\* least epsilon_min (the floor is applied as an episode starts, at line 119;
\* the decay of line 165 subtracts without a floor).
C11_EpsilonUsedNeverBelowMin == InEpisode => current_epsilon >= epsilon_min

\* C11 witness: a later episode runs on the floor, after a decay that went
\* below it
C11_Witness ==
    /\ pc = "train"
    /\ episode >= 1
    /\ current_epsilon = epsilon_min
    /\ epsilon <= epsilon_min

\* C12: within one cycle started with epsilon >= epsilon_min, the epsilon used
\* in the cycle's i-th episode (i = 0, 1, ...) is
\* max(epsilon_min, epsilon - i * epsilon_decay_value), whatever the rewards.
C12_EpsilonOfEpisode ==
    (InEpisode /\ epsilon >= epsilon_min)
        => current_epsilon = Max2(epsilon_min, epsilon - episode * epsilon_decay_value)

\* C12 witness: the second episode of a second cycle, one decay below the
\* epsilon argument
C12_Witness ==
    /\ pc = "step"
    /\ cycle >= 1
    /\ episode = 1
    /\ epsilon = 3
    /\ current_epsilon = 2

\* C13: an episode that ends on the step limit without reaching the goal has
\* its last transition stored with terminal = false, so that the backup of that
\* transition bootstraps.
C13_TruncationStoredNonTerminal ==
    (/\ pc = "train"
     /\ elapsed_steps = max_episode_steps
     /\ new_state[1] < goal_position
     /\ replay_memory # <<>>)
        => ~ replay_memory[Len(replay_memory)][5]

\* C14 as stated: in a step taken while the memory holds fewer than
\* min_replay_memory_size transitions the counter of finished episodes is not
\* incremented and the target network is not synchronized, even when the step
\* ends an episode.
C14_NoCountNoSyncBelowMinFill ==
    [][(pc = "book" /\ Len(replay_memory) < min_replay_memory_size)
        => /\ target_update_counter' = target_update_counter
           /\ target_model' = target_model
           /\ sync_log' = sync_log]_vars

\* C14, amended: in a step taken while the memory holds fewer than
\* min_replay_memory_size transitions the fit alone is skipped: a step that
\* ends an episode still counts it, and the target network is still
\* synchronized, and the counter reset, when the count reaches
\* update_target_every.
C14_OnlyFitSkippedBelowMinFill ==
    [][(pc = "book" /\ Len(replay_memory) < min_replay_memory_size)
        => /\ minibatch = <<>>
           /\ model' = model
           /\ LET counted == IF done THEN target_update_counter + 1
                              ELSE target_update_counter
              IN  IF counted > 0 /\ counted % update_target_every = 0
                  THEN /\ target_update_counter' = 0
                       /\ target_model' = model
                       /\ Len(sync_log') = Len(sync_log) + 1
                  ELSE /\ target_update_counter' = counted
                       /\ target_model' = target_model
                       /\ sync_log' = sync_log]_vars

\* C14 witness: an episode has ended, and the target network been synchronized,
\* with the memory below its minimum
C14_Witness ==
    /\ pc = "episode_end"
    /\ Len(replay_memory) < min_replay_memory_size
    /\ sync_log # <<>>
    /\ target_update_counter = 0

\* C15: as every cycle starts, epsilon is set again to the epsilon argument of
\* train_agent (under the floor of line 119, as in the first cycle), and the
\* replay memory, the online parameters, the target parameters and the target
\* update counter are carried over as they are.
C15_CycleResetsEpsilonOnly ==
    [][(pc = "episode_end" /\ cycle' = cycle + 1)
        => /\ current_epsilon' = Max2(epsilon_min, epsilon)
           /\ epsilon >= epsilon_min => current_epsilon' = epsilon
           /\ replay_memory' = replay_memory
           /\ model' = model
           /\ target_model' = target_model
           /\ target_update_counter' = target_update_counter]_vars

\* C15 witness: a second cycle starts from the epsilon argument, above the
\* epsilon the first one ended on, with a filled memory and a counter under way
C15_Witness ==
    /\ pc = "step"
    /\ cycle = 1
    /\ episode = 0
    /\ elapsed_steps = 0
    /\ episodes = 2
    /\ epsilon = 3
    /\ current_epsilon = 3
    /\ replay_memory # <<>>
    /\ target_update_counter = 2

\* C18: every finished episode of train_agent adds one entry to
\* episodes_rewards, the sum of the episode's step rewards, and one entry to
\* episodes_wins; after k finished episodes the two lists and episodes_counter
\* are at k, and at cycles * episodes when the run is over.
C18_OneEntryPerEpisode ==
    /\ [](pc # "episode_end"
            => /\ Len(episodes_rewards) = episodes_counter
               /\ Len(episodes_wins) = episodes_counter)
    /\ []((pc = "idle" /\ runs = 1) => episodes_counter = cycles * episodes)
    /\ [][pc = "episode_end"
            => /\ Len(episodes_wins) = episodes_counter + 1
               /\ episodes_counter' = episodes_counter + 1
               /\ episodes_wins' = episodes_wins
               /\ episodes_rewards'
                     = Append(episodes_rewards, elapsed_steps * step_reward)]_vars

\* C18 witness: a run of two cycles of two episodes is over with four entries
\* in each list
C18_Witness ==
    /\ pc = "idle"
    /\ runs = 1
    /\ cycles = 2
    /\ episodes = 2
    /\ episodes_counter = 4
    /\ Len(episodes_rewards) = 4
    /\ Len(episodes_wins) = 4

\* C16: play_game always takes the greedy action, the argmax of the online
\* model's q values with the lowest index on a tie, and leaves the training
\* state as it is: the replay memory, the online parameters, the target
\* parameters and the target update counter are the same after any number of
\* play_game calls.
C16_PlayGameGreedyAndFrozen ==
    [][(pc = "play" \/ pc' = "play")
        => /\ replay_memory' = replay_memory
           /\ model' = model
           /\ target_model' = target_model
           /\ target_update_counter' = target_update_counter
           /\ (pc = "play" /\ pc' = "play")
                => LET q == call(model, env_state)
                   IN  /\ action' \in Actions
                       /\ \A b \in Actions : q[b] <= q[action']
                       /\ \A b \in Actions : b < action' => q[b] < q[action']
                       /\ env_state' = env_next_state(env_state, action')]_vars

\* C16 witness: a trained agent with a loaded model whose best actions tie has
\* played a game on the lower of them
C16_Witness ==
    /\ pc = "idle"
    /\ runs = 1
    /\ results # <<>>
    /\ model = TiedParams
    /\ action = 1
    /\ replay_memory # <<>>
    /\ target_update_counter > 0

\* C17: an action index outside 0 .. len(actions) - 1, a negative one
\* included, handed to step fails with an error and leaves the game as it was;
\* it is never taken for one of the actions.
C17_OutOfRangeActionFails ==
    [][(game_call' = "step" /\ step_action' \notin 0 .. (Len(game_actions) - 1))
        => /\ step_raised' # ""
           /\ positions' = positions
           /\ steps_played' = steps_played]_vars

\* the steps stored in a list of episodes
StoredSteps(eps) ==
    LET partial[i \in 0 .. Len(eps)] ==
            IF i = 0 THEN 0 ELSE partial[i - 1] + Len(eps[i].states)
    IN  partial[Len(eps)]

\* C19: add_episode on a full batch (current_size >= max_size) raises
\* ValueError and leaves the episodes and current_size as they were; on a batch
\* that is not full it appends the episode and adds exactly its length to
\* current_size, so that len(batch) is the sum of the stored episodes' lengths.
C19_AddEpisode ==
    /\ [](current_size = StoredSteps(batch_episodes))
    /\ [][IF current_size >= max_size
          THEN /\ add_raised'
               /\ batch_episodes' = batch_episodes
               /\ current_size' = current_size
          ELSE /\ ~ add_raised'
               /\ Len(batch_episodes') = Len(batch_episodes) + 1
               /\ SubSeq(batch_episodes', 1, Len(batch_episodes)) = batch_episodes
               /\ current_size'
                     = current_size + Len(batch_episodes'[Len(batch_episodes')].states)]_vars

\* C19 witness: a batch with two episodes, filled to its max_size, has turned
\* an episode down
C19_Witness ==
    /\ add_raised
    /\ Len(batch_episodes) = 2
    /\ current_size = max_size
    /\ max_size = 3

\* C20: max_size is the largest number of stored steps: after any sequence of
\* add_episode calls, with episodes of any lengths, len(batch) never exceeds
\* max_size.
C20_SizeWithinMaxSize == current_size <= max_size

\* C21: the target network is synchronized only in a step whose done flag is
\* true, never inside an episode, and in that step after the push into the
\* replay memory and after the step's training_step: every target computed in
\* the episode that triggers the synchronization read the target parameters
\* from before it.
C21_SyncAtEpisodeEndAfterFit ==
    [][Len(sync_log') > Len(sync_log)
        => /\ pc = "book"
           /\ done
           /\ replay_memory # <<>>
           /\ replay_memory[Len(replay_memory)]
                 = <<state, action, reward, new_state, done>>
           /\ replay_memory' = replay_memory
           /\ model' = model
           /\ \A i \in 1 .. Len(minibatch) :
                 future_qs_list[i] = call(target_model, minibatch[i][4])]_vars

\* C21 witness: the second step of an episode has ended it and synchronized
\* the target network
C21_Witness ==
    /\ pc = "episode_end"
    /\ elapsed_steps = 2
    /\ sync_log # <<>>
    /\ sync_log[Len(sync_log)] = episodes_counter + 1
    /\ replay_memory[Len(replay_memory)][5]

\* a step call that has returned
StepReturned == game_call = "step" /\ step_raised = ""

\* C22: after prepare_game, step returns done = true exactly when the player
\* is on the goal after the move or steps_played has reached game_end; the
\* reward is goal_reward exactly when the player is on the goal, on the step
\* that reaches game_end as well, and move_reward otherwise; a loop that steps
\* while not done therefore ends within game_end steps.
C22_StepDoneAndReward ==
    /\ [](StepReturned
            => /\ step_return.state = <<positions.player, positions.goal>>
               /\ step_return.done
                     <=> (positions.player = positions.goal \/ steps_played >= game_end)
               /\ step_return.reward
                     = IF positions.player = positions.goal
                       THEN goal_reward ELSE move_reward
               /\ steps_played >= game_end => step_return.done)
    /\ [][(game_call' = "step" /\ step_raised' = "")
            => steps_played' = steps_played + 1]_vars

\* C22 witness: the step that reaches game_end puts the player on the goal and
\* returns goal_reward with done
C22_Witness ==
    /\ StepReturned
    /\ game_end = 2
    /\ steps_played = 2
    /\ positions.player = positions.goal
    /\ step_return.done
    /\ step_return.reward = goal_reward

\* C23: from a player position inside the board, after any sequence of step
\* calls with the actions 0 .. 3 the player stays inside the board: a move
\* against a wall leaves the position as it is, every other move changes one
\* coordinate by 1, and no step changes the goal position.
C23_PlayerStaysOnBoard ==
    /\ [](positions.player # <<>>
            => /\ positions.player \in Cells(board_x, board_y)
               /\ positions.goal \in Cells(board_x, board_y))
    /\ [][(game_call' = "step" /\ step_raised' = ""
             /\ step_action' \in 0 .. (Len(game_actions) - 1))
            => LET dx == positions'.player[1] - positions.player[1]
                   dy == positions'.player[2] - positions.player[2]
                   wanted == IF step_action' = 0 THEN <<0, 1>>
                             ELSE IF step_action' = 1 THEN <<1, 0>>
                             ELSE IF step_action' = 2 THEN <<0, -1>>
                             ELSE <<-1, 0>>
                   target == <<positions.player[1] + wanted[1],
                               positions.player[2] + wanted[2]>>
               IN  /\ positions'.goal = positions.goal
                   /\ IF target \in Cells(board_x, board_y)
                      THEN <<dx, dy>> = wanted
                      ELSE <<dx, dy>> = <<0, 0>>]_vars

\* C23 witness: on a board one cell high a step up has left the player where
\* it was, at the right wall
C23_Witness ==
    /\ StepReturned
    /\ board_y = 1
    /\ board_x = 2
    /\ step_action = 0
    /\ positions.player = <<1, 0>>
    /\ steps_played = 2

\* C24: with update_target_every = N >= 1 the target update counter is within
\* 0 .. N - 1 at the end of every step of the training loop, over the
\* episodes, the cycles and the train_agent calls on one agent; it changes by
\* +1 in a done step, or goes back to 0 at a synchronization, and in no other
\* way.
C24_CounterBelowPeriod ==
    /\ [](0 <= target_update_counter /\ target_update_counter < update_target_every)
    /\ [][target_update_counter' # target_update_counter
            => /\ pc = "book"
               /\ done
               /\ \/ /\ target_update_counter' = target_update_counter + 1
                     /\ sync_log' = sync_log
                  \/ /\ target_update_counter' = 0
                     /\ Len(sync_log') = Len(sync_log) + 1
                     /\ target_model' = model]_vars

\* C24 witness: with N = 3 a second train_agent call has gone on from the
\* counter of 2 the first one left, synchronized at the end of its first
\* episode and counted its second
C24_Witness ==
    /\ update_target_every = 3
    /\ runs = 2
    /\ pc = "idle"
    /\ episodes_counter = 2
    /\ sync_log = <<1>>
    /\ target_update_counter = 1

====
